---- MODULE Spec2Model ----
(***************************************************************************)
(* Model of the embedding composition layer of pytorch-widedeep            *)
(* (pytorch_widedeep/models/embeddings_layers.py).                          *)
(*                                                                         *)
(* Every nn.Module instance is a record whose DOMAIN is the set of         *)
(* attributes the constructor has set, so that reading an attribute that   *)
(* was never assigned is an AttributeError, as in Python.  Tensors are     *)
(* nested sequences; their elements are symbolic terms (tuples headed by a *)
(* string) naming the value the element holds: a table entry, an input     *)
(* value, a sum, a dropout-scaled value.  Probabilities and the shared     *)
(* fraction are rationals, given as a numerator over ProbDen / FracDen.    *)
(* The random numbers a call draws are an input of the call: a constructor *)
(* takes the label rng its fresh parameters carry, a forward call takes    *)
(* the draw of its dropout mask.                                           *)
(*                                                                         *)
(* The state is one module instance in use: it is constructed, switched    *)
(* between train() and eval(), called, and discarded.  TabMlp, the         *)
(* consumer of the variable-width composite, is constructed on top of it.  *)
(***************************************************************************)
EXTENDS Integers, Sequences, FiniteSets, TLC

VARIABLES
    obj,      \* the module instance in use, or NoObject
    ret,      \* the last call on it: its arguments and what it returned or raised
    training, \* nn.Module.training of the instance and, as train() and eval()
              \* set it recursively, of all its sub-modules
    lists     \* the Python list objects that outlive a constructor call: the
              \* default value of TabMlp's mlp_hidden_dims, which the function
              \* object holds, and the list the caller has passed

vars == <<obj, ret, training, lists>>

(***************************************************************************)
(* Bounds of the model.                                                    *)
(***************************************************************************)
\* probabilities are multiples of 1/ProbDen
ProbDen == 10
\* the shared fraction is a multiple of 1/FracDen
FracDen == 4
\* largest batch size N of a forward call
MaxBatch == 2
\* largest width of a tensor handed to FullEmbeddingDropout
MaxWidth == 2
\* input values of a tensor handed to FullEmbeddingDropout start at 0..MaxVal
MaxVal == 1
\* largest cardinality of a categorical column
MaxCard == 2
\* largest embedding width
MaxDim == 3
\* most training batches a BatchNorm1d layer counts
MaxTracked == 2

(***************************************************************************)
(* Python values: call outcomes, None, attribute lookup.                   *)
(***************************************************************************)
Ok(v) == [outcome |-> "ok", error |-> "", value |-> v, warnings |-> {}]

Raise(e) == [outcome |-> "raise", error |-> e, value |-> <<>>, warnings |-> {}]

None == [isNone |-> TRUE]

Some(v) == [isNone |-> FALSE, v |-> v]

NoObject == [cls |-> "None"]

NoCall ==
    [op |-> "none", arg |-> <<>>, training |-> TRUE, outcome |-> "ok", error |-> "",
     value |-> <<>>, warnings |-> {}]

\* the record of a call: its arguments, the mode it ran in, its outcome
Call(op, arg, res) ==
    [op |-> op, arg |-> arg, training |-> training, outcome |-> res.outcome, error |-> res.error,
     value |-> res.value, warnings |-> res.warnings]

HasAttr(self, name) == name \in DOMAIN self

(***************************************************************************)
(* Symbolic tensor elements.                                               *)
(***************************************************************************)
Zero == <<"zero">>

NaN == <<"nan">>

Add(a, b) == <<"add", a, b>>

Mul(a, b) == <<"mul", a, b>>

\* t / (1 - p): the rescaling of a kept element by dropout with probability p
Scale(p, t) == IF p = 0 THEN t ELSE <<"scale", p, t>>

\* the probabilities a caller may pass: below 0, 0, inside (0,1), 1, above 1
Probs == {-1, 0, ProbDen \div 2, ProbDen, ProbDen + 1}

(***************************************************************************)
(* Dropout masks.  The Bernoulli draw of a mask is an input of the forward *)
(* call; the model follows four draws: no index dropped, the first index   *)
(* dropped, the last index dropped, every index dropped.  A probability of *)
(* 0 keeps and a probability of 1 drops every index whatever the draw.     *)
(***************************************************************************)
Draws == IF training THEN {"none", "first", "last", "all"} ELSE {"none"}

Dropped(draw, p, index, first, last) ==
    /\ p > 0
    /\ \/ p >= ProbDen
       \/ draw = "all"
       \/ draw = "first" /\ index = first
       \/ draw = "last" /\ index = last

(***************************************************************************)
(* FullEmbeddingDropout                                                    *)
(***************************************************************************)
\* mutant: the endpoint 1 rejected
FullEmbeddingDropout_init_rejectsOne(p) ==
    IF p < 0 \/ p >= ProbDen
        THEN Raise("ValueError")
        ELSE Ok([cls |-> "FullEmbeddingDropout", p |-> p])

FullEmbeddingDropout_init(p) ==
    IF p < 0 \/ p > ProbDen
        THEN Raise("ValueError")
        ELSE Ok([cls |-> "FullEmbeddingDropout", p |-> p])

\* one element of mask.expand_as(X) / (1 - dropout) * X
MaskedElem(dropped, dropout, x) ==
    IF dropout = ProbDen THEN NaN ELSE IF dropped THEN Zero ELSE Scale(dropout, x)

\* mask.expand_as(X) / (1 - dropout) * X for a mask of shape (X.size(1), 1):
\* on a rank-3 X (N, S, D) the mask entry of index s covers X[:, s, :]; on a
\* rank-2 X (N, S) the expansion needs S = N and the mask entry of index n
\* covers X[n, :].
MaskedScale(X, rank, draw, dropout) ==
    IF rank = 2
        THEN IF Len(X) # Len(X[1])
                THEN Raise("RuntimeError")
                ELSE Ok([n \in 1..Len(X) |-> [i \in 1..Len(X[n]) |->
                        MaskedElem(Dropped(draw, dropout, n, 1, Len(X)), dropout, X[n][i])]])
        ELSE Ok([n \in 1..Len(X) |-> [s \in 1..Len(X[n]) |-> [d \in 1..Len(X[n][s]) |->
                    MaskedElem(Dropped(draw, dropout, s, 1, Len(X[n])), dropout, X[n][s][d])]]])

\* mutant: the mode test inverted
FullEmbeddingDropout_forward_invertedMode(self, X, rank, draw) ==
    IF ~training
        THEN IF ~HasAttr(self, "dropout")
                THEN Raise("AttributeError")
                ELSE MaskedScale(X, rank, draw, self["dropout"])
        ELSE Ok(X)

\* forward reads self.dropout; the constructor sets self.p only
FullEmbeddingDropout_forward(self, X, rank, draw) ==
    IF training
        THEN IF ~HasAttr(self, "dropout")
                THEN Raise("AttributeError")
                ELSE MaskedScale(X, rank, draw, self["dropout"])
        ELSE Ok(X)

(***************************************************************************)
(* nn.Dropout / F.dropout: elementwise dropout.                            *)
(***************************************************************************)
Dropout_init(p) ==
    IF p < 0 \/ p > ProbDen
        THEN Raise("ValueError")
        ELSE Ok([cls |-> "Dropout", p |-> p])

DropElem(dropped, p, x) == IF dropped THEN Zero ELSE Scale(p, x)

\* F.dropout(X, p, training) on a rank-2 tensor
F_dropout2(X, p, draw) ==
    IF p < 0 \/ p > ProbDen THEN Raise("ValueError")
    ELSE IF ~training THEN Ok(X)
    ELSE Ok([n \in 1..Len(X) |-> [i \in 1..Len(X[n]) |->
                DropElem(Dropped(draw, p, <<n, i>>, <<1, 1>>, <<Len(X), Len(X[n])>>), p, X[n][i])]])

\* F.dropout(X, p, training) on a rank-3 tensor
F_dropout3(X, p, draw) ==
    IF p < 0 \/ p > ProbDen THEN Raise("ValueError")
    ELSE IF ~training THEN Ok(X)
    ELSE Ok([n \in 1..Len(X) |-> [s \in 1..Len(X[n]) |-> [d \in 1..Len(X[n][s]) |->
                DropElem(Dropped(draw, p, <<n, s, d>>, <<1, 1, 1>>, <<Len(X), Len(X[n]), Len(X[n][s])>>),
                         p, X[n][s][d])]]])

(***************************************************************************)
(* SharedEmbeddings                                                        *)
(***************************************************************************)
\* int(a / b) for b > 0: truncation towards zero
IntTrunc(a, b) == IF a >= 0 THEN a \div b ELSE -((-a) \div b)

\* nn.Embedding(n_embed, embed_dim, padding_idx=0): row 0 is zero-filled
Embedding_init(rng, n_embed, embed_dim) ==
    [weight |-> [r \in 0..(n_embed - 1) |-> [d \in 1..embed_dim |->
                    IF r = 0 THEN Zero ELSE <<"w", rng, r, d>>]]]

\* mutant: the assertion on the fraction made in overwrite mode only
SharedEmbeddings_assert_overwriteOnly(add_shared_embed, frac_shared_embed) ==
    add_shared_embed \/ frac_shared_embed < FracDen

\* assert frac_shared_embed < 1
SharedEmbeddings_assert(add_shared_embed, frac_shared_embed) ==
    frac_shared_embed < FracDen

\* the width of the shared vector
SharedEmbeddings_col_embed_dim(embed_dim, add_shared_embed, frac_shared_embed) ==
    IF add_shared_embed
        THEN embed_dim
        ELSE IntTrunc(embed_dim * frac_shared_embed, FracDen)

\* the assertion; the table; the shared vector, whose negative width
\* torch.empty refuses; the dropout layer, whose constructor checks the
\* probability
SharedEmbeddings_init(rng, n_embed, embed_dim, embed_dropout, full_embed_dropout, add_shared_embed, frac_shared_embed) ==
    LET col_embed_dim == SharedEmbeddings_col_embed_dim(embed_dim, add_shared_embed, frac_shared_embed)
        dropout == IF full_embed_dropout
                      THEN FullEmbeddingDropout_init(embed_dropout)
                      ELSE Dropout_init(embed_dropout)
    IN  IF ~SharedEmbeddings_assert(add_shared_embed, frac_shared_embed) THEN Raise("AssertionError")
        ELSE IF col_embed_dim < 0 THEN Raise("RuntimeError")
        ELSE IF dropout.outcome = "raise" THEN dropout
        ELSE Ok([cls |-> "SharedEmbeddings",
                 add_shared_embed |-> add_shared_embed,
                 embed |-> Embedding_init(rng, n_embed, embed_dim),
                 shared_embed |-> [d \in 1..col_embed_dim |-> <<"shared", rng, d>>],
                 dropout |-> dropout.value])

\* self.embed(X) for a vector X of codes: one table row per code
Embedding_forward(embed, X) ==
    IF \E n \in 1..Len(X) : X[n] \notin DOMAIN embed.weight
        THEN Raise("IndexError")
        ELSE Ok([n \in 1..Len(X) |-> embed.weight[X[n]]])

\* self.dropout(t): the full-row variant or nn.Dropout
SharedEmbeddings_dropout(self, t, draw) ==
    IF self.dropout.cls = "FullEmbeddingDropout"
        THEN FullEmbeddingDropout_forward(self.dropout, t, 2, draw)
        ELSE F_dropout2(t, self.dropout.p, draw)

\* mutant: the shared vector always overwrites
SharedEmbeddings_combine_alwaysOverwrite(self, out) ==
    [n \in 1..Len(out) |-> [d \in 1..Len(out[n]) |->
        IF d <= Len(self.shared_embed) THEN self.shared_embed[d] ELSE out[n][d]]]

\* mutant: the shared vector written at the end of the row
SharedEmbeddings_combine_overwriteTail(self, out) ==
    IF self.add_shared_embed
        THEN [n \in 1..Len(out) |-> [d \in 1..Len(out[n]) |-> Add(out[n][d], self.shared_embed[d])]]
        ELSE [n \in 1..Len(out) |-> [d \in 1..Len(out[n]) |->
                IF d > Len(out[n]) - Len(self.shared_embed)
                    THEN self.shared_embed[d - (Len(out[n]) - Len(self.shared_embed))]
                    ELSE out[n][d]]]

\* out += shared_embed, or out[:, :shared_embed.shape[1]] = shared_embed
SharedEmbeddings_combine(self, out) ==
    IF self.add_shared_embed
        THEN [n \in 1..Len(out) |-> [d \in 1..Len(out[n]) |-> Add(out[n][d], self.shared_embed[d])]]
        ELSE [n \in 1..Len(out) |-> [d \in 1..Len(out[n]) |->
                IF d <= Len(self.shared_embed) THEN self.shared_embed[d] ELSE out[n][d]]]

\* mutant: the dropout applied after the shared vector has been combined
SharedEmbeddings_forward_dropoutLast(self, X, draw) ==
    LET e == Embedding_forward(self.embed, X) IN
    IF e.outcome = "raise" THEN e
    ELSE SharedEmbeddings_dropout(self, SharedEmbeddings_combine(self, e.value), draw)

SharedEmbeddings_forward(self, X, draw) ==
    LET e == Embedding_forward(self.embed, X) IN
    IF e.outcome = "raise" THEN e
    ELSE LET out == SharedEmbeddings_dropout(self, e.value, draw) IN
         IF out.outcome = "raise" THEN out
         ELSE Ok(SharedEmbeddings_combine(self, out.value))

(***************************************************************************)
(* Sequences, dictionaries, tensors.                                       *)
(***************************************************************************)
RECURSIVE SumSeq(_)
SumSeq(q) == IF q = <<>> THEN 0 ELSE Head(q) + SumSeq(Tail(q))

\* torch.cat / "b s d -> b (s d)": the parts of q one after the other
RECURSIVE Concat(_)
Concat(q) == IF q = <<>> THEN <<>> ELSE Head(q) \o Concat(Tail(q))

\* [column_idx[col] for col in cols] raises KeyError on a name that is no key
MissingKey(column_idx, cols) == \E i \in 1..Len(cols) : cols[i] \notin DOMAIN column_idx

\* X[:, idx] raises IndexError on a position beyond the width of X
BeyondWidth(X, idx) == \E i \in 1..Len(idx) : idx[i] + 1 > Len(X[1])

\* the first raising outcome of a sequence of outcomes, if any
FirstRaise(rs) ==
    LET bad == {i \in 1..Len(rs) : rs[i].outcome = "raise"} IN
    IF bad = {} THEN Ok(<<>>) ELSE rs[CHOOSE i \in bad : \A j \in bad : i <= j]

(***************************************************************************)
(* ContEmbeddings                                                          *)
(***************************************************************************)
\* the constructor stores embed_dropout unchecked
ContEmbeddings_init(n_cont_cols, embed_dim, embed_dropout, use_bias, activation) ==
    Ok([cls |-> "ContEmbeddings",
        n_cont_cols |-> n_cont_cols,
        embed_dim |-> embed_dim,
        embed_dropout |-> embed_dropout,
        use_bias |-> use_bias,
        activation |-> activation,
        weight |-> [c \in 1..n_cont_cols |-> [d \in 1..embed_dim |-> <<"weight", c, d>>]],
        bias |-> IF use_bias
                    THEN Some([c \in 1..n_cont_cols |-> [d \in 1..embed_dim |-> <<"bias", c, d>>]])
                    ELSE None,
        act_fn |-> activation])

\* mutant: every column is computed from the input of the first column
ContEmbeddings_forward_firstColumnInput(self, X, draw) ==
    LET lin(n, c, d) == Mul(self.weight[c][d], X[n][1])
        aff(n, c, d) == IF ~self.bias.isNone THEN Add(lin(n, c, d), self.bias.v[c][d]) ELSE lin(n, c, d)
        act(n, c, d) == IF ~self.act_fn.isNone THEN <<"act", self.act_fn.v, aff(n, c, d)>> ELSE aff(n, c, d)
    IN  F_dropout3([n \in 1..Len(X) |-> [c \in 1..self.n_cont_cols |-> [d \in 1..self.embed_dim |-> act(n, c, d)]]],
                   self.embed_dropout, draw)

\* weight * X (+ bias), the activation, then F.dropout, which checks the
\* probability on every call
ContEmbeddings_forward(self, X, draw) ==
    LET lin(n, c, d) == Mul(self.weight[c][d], X[n][c])
        aff(n, c, d) == IF ~self.bias.isNone THEN Add(lin(n, c, d), self.bias.v[c][d]) ELSE lin(n, c, d)
        act(n, c, d) == IF ~self.act_fn.isNone THEN <<"act", self.act_fn.v, aff(n, c, d)>> ELSE aff(n, c, d)
    IN  F_dropout3([n \in 1..Len(X) |-> [c \in 1..self.n_cont_cols |-> [d \in 1..self.embed_dim |-> act(n, c, d)]]],
                   self.embed_dropout, draw)

(***************************************************************************)
(* DiffSizeCatEmbeddings                                                   *)
(***************************************************************************)
\* the ModuleDict keyed by column name: a repeated name keeps its last entry
DiffSizeCatEmbeddings_embed_layers(embed_input) ==
    LET last(col) == CHOOSE i \in 1..Len(embed_input) :
                        /\ embed_input[i][1] = col
                        /\ \A j \in (i + 1)..Len(embed_input) : embed_input[j][1] # col
    IN  [col \in {embed_input[i][1] : i \in 1..Len(embed_input)} |->
            Embedding_init(col, embed_input[last(col)][2] + 1, embed_input[last(col)][3])]

DiffSizeCatEmbeddings_init(column_idx, embed_input, embed_dropout) ==
    LET dropout == Dropout_init(embed_dropout) IN
    IF dropout.outcome = "raise" THEN dropout
    ELSE Ok([cls |-> "DiffSizeCatEmbeddings",
             column_idx |-> column_idx,
             embed_input |-> embed_input,
             embed_layers |-> DiffSizeCatEmbeddings_embed_layers(embed_input),
             embedding_dropout |-> dropout.value,
             emb_out_dim |-> SumSeq([i \in 1..Len(embed_input) |-> embed_input[i][3]])])

\* the lookup of one column: the code at position column_idx[col] of every row
ColumnLookup(column_idx, embed, col, X) ==
    IF col \notin DOMAIN column_idx THEN Raise("KeyError")
    ELSE IF column_idx[col] + 1 > Len(X[1]) THEN Raise("IndexError")
    ELSE Embedding_forward(embed, [n \in 1..Len(X) |-> X[n][column_idx[col] + 1]])

\* mutant: the columns concatenated in the reverse order of the spec
DiffSizeCatEmbeddings_forward_reversed(self, X, draw) ==
    LET k == Len(self.embed_input)
        embed == [i \in 1..k |->
                    ColumnLookup(self.column_idx, self.embed_layers[self.embed_input[k + 1 - i][1]],
                                 self.embed_input[k + 1 - i][1], X)]
        bad == FirstRaise(embed)
    IN  IF bad.outcome = "raise" THEN bad
        ELSE F_dropout2([n \in 1..Len(X) |-> Concat([i \in 1..Len(embed) |-> embed[i].value[n]])],
                        self.embedding_dropout.p, draw)

DiffSizeCatEmbeddings_forward(self, X, draw) ==
    LET embed == [i \in 1..Len(self.embed_input) |->
                    ColumnLookup(self.column_idx, self.embed_layers[self.embed_input[i][1]],
                                 self.embed_input[i][1], X)]
        bad == FirstRaise(embed)
    IN  IF bad.outcome = "raise" THEN bad
        ELSE F_dropout2([n \in 1..Len(X) |-> Concat([i \in 1..Len(embed) |-> embed[i].value[n]])],
                        self.embedding_dropout.p, draw)

(***************************************************************************)
(* The continuous branch of both composite embedders (the two classes hold *)
(* the same code for it): the columns' positions, the normalization layer, *)
(* the optional ContEmbeddings.                                            *)
(***************************************************************************)
Norm_init(cont_norm_layer, n) ==
    IF cont_norm_layer = "layernorm" THEN [cls |-> "LayerNorm", normalized_shape |-> n]
    ELSE IF cont_norm_layer = "batchnorm" THEN [cls |-> "BatchNorm1d", num_features |-> n, num_batches_tracked |-> 0]
    ELSE [cls |-> "Identity"]

\* nn.BatchNorm1d counts the batch first and then refuses a training batch of
\* one row; in evaluation mode it normalizes with its running statistics
Norm_forward(norm, x) ==
    IF norm.cls = "LayerNorm"
        THEN Ok([n \in 1..Len(x) |-> [c \in 1..Len(x[n]) |-> <<"layernorm", x[n][c]>>]])
    ELSE IF norm.cls = "BatchNorm1d"
        THEN IF training
                THEN IF Len(x) = 1
                        THEN Raise("ValueError")
                        ELSE Ok([n \in 1..Len(x) |-> [c \in 1..Len(x[n]) |-> <<"batchnorm", "batch", 0, x[n][c]>>]])
                ELSE Ok([n \in 1..Len(x) |-> [c \in 1..Len(x[n]) |->
                            <<"batchnorm", "running", norm.num_batches_tracked, x[n][c]>>]])
    ELSE Ok(x)

\* the bound of the model on num_batches_tracked
TrackedBelowBound(self) ==
    (HasAttr(self, "cont_norm") /\ self.cont_norm.cls = "BatchNorm1d" /\ training)
        => self.cont_norm.num_batches_tracked < MaxTracked

\* mutant: the batch counted in evaluation mode too
Norm_after_countsInEval(norm) ==
    IF norm.cls = "BatchNorm1d"
        THEN [norm EXCEPT !.num_batches_tracked = @ + 1]
        ELSE norm

\* the layer after the call
Norm_after(norm) ==
    IF norm.cls = "BatchNorm1d" /\ training
        THEN [norm EXCEPT !.num_batches_tracked = @ + 1]
        ELSE norm

\* the attributes the continuous part of a composite constructor sets
ContBranch_init(column_idx, continuous_cols, embed_continuous, embed_dim, cont_embed_dropout, cont_embed_activation, use_cont_bias, cont_norm_layer) ==
    IF continuous_cols.isNone THEN Ok(<<>>)
    ELSE IF MissingKey(column_idx, continuous_cols.v) THEN Raise("KeyError")
    ELSE LET n == Len(continuous_cols.v)
             attrs == [cont_idx |-> [i \in 1..n |-> column_idx[continuous_cols.v[i]]],
                       cont_norm |-> Norm_init(cont_norm_layer, n)]
         IN  IF embed_continuous
                THEN Ok(attrs @@ [cont_embed |-> ContEmbeddings_init(n, embed_dim, cont_embed_dropout,
                                                                     use_cont_bias, cont_embed_activation).value])
                ELSE Ok(attrs)

\* mutant: the embedding applied to the slice, the normalization to the
\* embedded elements
ContBranch_forward_embedBeforeNorm(self, X, draw) ==
    IF self.continuous_cols.isNone THEN Ok(None)
    ELSE IF BeyondWidth(X, self.cont_idx) THEN Raise("IndexError")
    ELSE LET sliced == [n \in 1..Len(X) |-> [c \in 1..Len(self.cont_idx) |->
                            <<"x", n, self.cont_idx[c], X[n][self.cont_idx[c] + 1]>>]]
             normed == Norm_forward(self.cont_norm, sliced)
             wrap(t) == CASE self.cont_norm.cls = "LayerNorm" -> <<"layernorm", t>>
                          [] self.cont_norm.cls = "BatchNorm1d" ->
                                <<"batchnorm", IF training THEN "batch" ELSE "running",
                                  IF training THEN 0 ELSE self.cont_norm.num_batches_tracked, t>>
                          [] OTHER -> t
         IN  IF normed.outcome = "raise" THEN normed
             ELSE IF self.embed_continuous
                THEN LET e == ContEmbeddings_forward(self.cont_embed, sliced, draw) IN
                     IF e.outcome = "raise" THEN e
                     ELSE Ok(Some([n \in 1..Len(e.value) |-> [c \in 1..Len(e.value[n]) |->
                                    [d \in 1..Len(e.value[n][c]) |-> wrap(e.value[n][c][d])]]]))
                ELSE Ok(Some(normed.value))

\* x_cont before the variable-width composite flattens it
ContBranch_forward(self, X, draw) ==
    IF self.continuous_cols.isNone THEN Ok(None)
    ELSE IF BeyondWidth(X, self.cont_idx) THEN Raise("IndexError")
    ELSE LET sliced == [n \in 1..Len(X) |-> [c \in 1..Len(self.cont_idx) |->
                            <<"x", n, self.cont_idx[c], X[n][self.cont_idx[c] + 1]>>]]
             normed == Norm_forward(self.cont_norm, sliced)
         IN  IF normed.outcome = "raise" THEN normed
             ELSE IF self.embed_continuous
                THEN LET e == ContEmbeddings_forward(self.cont_embed, normed.value, draw) IN
                     IF e.outcome = "raise" THEN e ELSE Ok(Some(e.value))
                ELSE Ok(Some(normed.value))

\* the instance after its continuous branch has run on X
ContBranch_after(self, X) ==
    IF self.continuous_cols.isNone \/ BeyondWidth(X, self.cont_idx) THEN self
    ELSE [self EXCEPT !.cont_norm = Norm_after(@)]

(***************************************************************************)
(* DiffSizeCatAndContEmbeddings                                            *)
(***************************************************************************)
DiffArgs(column_idx, cat_embed_input, cat_embed_dropout, continuous_cols, embed_continuous, cont_embed_dim, cont_embed_dropout, cont_embed_activation, use_cont_bias, cont_norm_layer) ==
    [column_idx |-> column_idx, cat_embed_input |-> cat_embed_input, cat_embed_dropout |-> cat_embed_dropout,
     continuous_cols |-> continuous_cols, embed_continuous |-> embed_continuous,
     cont_embed_dim |-> cont_embed_dim, cont_embed_dropout |-> cont_embed_dropout,
     cont_embed_activation |-> cont_embed_activation, use_cont_bias |-> use_cont_bias,
     cont_norm_layer |-> cont_norm_layer]

\* mutant: cat_out_dim sums the cardinalities, embed[1], not the widths
DiffSizeCatAndContEmbeddings_cat_sumsCardinalities(a) ==
    IF ~a.cat_embed_input.isNone
        THEN LET ce == DiffSizeCatEmbeddings_init(a.column_idx, a.cat_embed_input.v, a.cat_embed_dropout) IN
             IF ce.outcome = "raise" THEN ce
             ELSE Ok([cat_embed |-> ce.value,
                      cat_out_dim |-> SumSeq([i \in 1..Len(a.cat_embed_input.v) |-> a.cat_embed_input.v[i][2]])])
        ELSE Ok([cat_out_dim |-> 0])

\* the categorical part of the constructor: cat_embed and cat_out_dim
DiffSizeCatAndContEmbeddings_cat(a) ==
    IF ~a.cat_embed_input.isNone
        THEN LET ce == DiffSizeCatEmbeddings_init(a.column_idx, a.cat_embed_input.v, a.cat_embed_dropout) IN
             IF ce.outcome = "raise" THEN ce
             ELSE Ok([cat_embed |-> ce.value,
                      cat_out_dim |-> SumSeq([i \in 1..Len(a.cat_embed_input.v) |-> a.cat_embed_input.v[i][3]])])
        ELSE Ok([cat_out_dim |-> 0])

\* mutant: cont_out_dim counts the columns even when they are embedded
DiffSizeCatAndContEmbeddings_cont_out_dim_unembedded(a) ==
    IF ~a.continuous_cols.isNone THEN Len(a.continuous_cols.v) ELSE 0

\* cont_out_dim
DiffSizeCatAndContEmbeddings_cont_out_dim(a) ==
    IF ~a.continuous_cols.isNone
        THEN IF a.embed_continuous
                THEN Len(a.continuous_cols.v) * a.cont_embed_dim
                ELSE Len(a.continuous_cols.v)
        ELSE 0

DiffSizeCatAndContEmbeddings_init(a) ==
    LET cat == DiffSizeCatAndContEmbeddings_cat(a)
        cont == ContBranch_init(a.column_idx, a.continuous_cols, a.embed_continuous, a.cont_embed_dim,
                                a.cont_embed_dropout, a.cont_embed_activation, a.use_cont_bias,
                                a.cont_norm_layer)
    IN  IF cat.outcome = "raise" THEN cat
        ELSE IF cont.outcome = "raise" THEN cont
        ELSE Ok([cls |-> "DiffSizeCatAndContEmbeddings",
                 cat_embed_input |-> a.cat_embed_input,
                 continuous_cols |-> a.continuous_cols,
                 embed_continuous |-> a.embed_continuous]
                @@ cat.value
                @@ (IF a.continuous_cols.isNone THEN <<>> ELSE cont.value)
                @@ [cont_out_dim |-> DiffSizeCatAndContEmbeddings_cont_out_dim(a),
                    output_dim |-> cat.value.cat_out_dim + DiffSizeCatAndContEmbeddings_cont_out_dim(a)])

\* mutant: the embedded continuous columns flattened d-major, "b s d -> b (d s)"
DiffSizeCatAndContEmbeddings_forward_transposedFlatten(self, X, draw) ==
    LET x_cat == IF ~self.cat_embed_input.isNone
                    THEN DiffSizeCatEmbeddings_forward(self.cat_embed, X, draw)
                    ELSE Ok(<<>>)
        x_cont == ContBranch_forward(self, X, draw)
    IN  IF x_cat.outcome = "raise" THEN x_cat
        ELSE IF x_cont.outcome = "raise" THEN x_cont
        ELSE Ok([x_cat |-> IF ~self.cat_embed_input.isNone THEN Some(x_cat.value) ELSE None,
                 x_cont |-> IF ~self.continuous_cols.isNone /\ self.embed_continuous
                               THEN Some([n \in 1..Len(X) |->
                                        Concat([d \in 1..self.cont_embed.embed_dim |->
                                                  [c \in 1..Len(self.cont_idx) |-> x_cont.value.v[n][c][d]]])])
                               ELSE x_cont.value])

\* (x_cat, x_cont): the embedded continuous columns are flattened to (N, C*D)
DiffSizeCatAndContEmbeddings_forward(self, X, draw) ==
    LET x_cat == IF ~self.cat_embed_input.isNone
                    THEN DiffSizeCatEmbeddings_forward(self.cat_embed, X, draw)
                    ELSE Ok(<<>>)
        x_cont == ContBranch_forward(self, X, draw)
    IN  IF x_cat.outcome = "raise" THEN x_cat
        ELSE IF x_cont.outcome = "raise" THEN x_cont
        ELSE Ok([x_cat |-> IF ~self.cat_embed_input.isNone THEN Some(x_cat.value) ELSE None,
                 x_cont |-> IF ~self.continuous_cols.isNone /\ self.embed_continuous
                               THEN Some([n \in 1..Len(X) |-> Concat(x_cont.value.v[n])])
                               ELSE x_cont.value])

\* the instance after forward: the categorical branch runs first, and the
\* continuous branch only when it has not raised
DiffSizeCatAndContEmbeddings_after(self, X, draw) ==
    IF ~self.cat_embed_input.isNone /\ DiffSizeCatEmbeddings_forward(self.cat_embed, X, draw).outcome = "raise"
        THEN self
        ELSE ContBranch_after(self, X)

(***************************************************************************)
(* SameSizeCatEmbeddings                                                   *)
(***************************************************************************)
SameArgs(embed_dim, column_idx, cat_embed_input, cat_embed_dropout, full_embed_dropout, shared_embed, add_shared_embed, frac_shared_embed, use_embed_bias, continuous_cols, embed_continuous, cont_embed_dropout, cont_embed_activation, use_cont_bias, cont_norm_layer) ==
    [embed_dim |-> embed_dim, column_idx |-> column_idx, cat_embed_input |-> cat_embed_input,
     cat_embed_dropout |-> cat_embed_dropout, full_embed_dropout |-> full_embed_dropout,
     shared_embed |-> shared_embed, add_shared_embed |-> add_shared_embed,
     frac_shared_embed |-> frac_shared_embed, use_embed_bias |-> use_embed_bias,
     continuous_cols |-> continuous_cols, embed_continuous |-> embed_continuous,
     cont_embed_dropout |-> cont_embed_dropout, cont_embed_activation |-> cont_embed_activation,
     use_cont_bias |-> use_cont_bias, cont_norm_layer |-> cont_norm_layer]

\* use_bias is a Python bool, "True" or "False"; the constructor tests it
\* against None
SameSizeCatEmbeddings_bias_made(use_bias) == use_bias # "None"

\* the bias parameter and the warning
SameSizeCatEmbeddings_bias(a, embed_input) ==
    IF SameSizeCatEmbeddings_bias_made(a.use_embed_bias)
        THEN [attrs |-> [bias |-> [s \in 1..Len(embed_input) |-> [d \in 1..a.embed_dim |-> <<"bias", s, d>>]]],
              warnings |-> IF a.shared_embed THEN {"UserWarning"} ELSE {}]
        ELSE [attrs |-> <<>>, warnings |-> {}]

\* one SharedEmbeddings per column, constructed in the order of the spec and
\* kept by column name
SameSizeCatEmbeddings_shared(a, embed_input) ==
    LET made == [i \in 1..Len(embed_input) |->
                    SharedEmbeddings_init(embed_input[i][1],
                                          IF embed_input[i][1] = "cls_token"
                                              THEN embed_input[i][2]
                                              ELSE embed_input[i][2] + 1,
                                          a.embed_dim, a.cat_embed_dropout, a.full_embed_dropout,
                                          a.add_shared_embed, a.frac_shared_embed)]
        bad == FirstRaise(made)
        last(col) == CHOOSE i \in 1..Len(embed_input) :
                        /\ embed_input[i][1] = col
                        /\ \A j \in (i + 1)..Len(embed_input) : embed_input[j][1] # col
    IN  IF bad.outcome = "raise" THEN bad
        ELSE Ok([embed |-> [col \in {embed_input[i][1] : i \in 1..Len(embed_input)} |-> made[last(col)].value]])

\* the merged table of n_tokens + 1 rows and the dropout layer
SameSizeCatEmbeddings_single(a, n_tokens) ==
    LET dropout == IF a.full_embed_dropout
                      THEN FullEmbeddingDropout_init(a.cat_embed_dropout)
                      ELSE Dropout_init(a.cat_embed_dropout)
    IN  IF dropout.outcome = "raise" THEN dropout
        ELSE Ok([embed |-> Embedding_init("embed", n_tokens + 1, a.embed_dim), dropout |-> dropout.value])

SameSizeCatEmbeddings_init(a, embed_input) ==
    LET categorical_cols == [i \in 1..Len(embed_input) |-> embed_input[i][1]]
        n_tokens == SumSeq([i \in 1..Len(embed_input) |-> embed_input[i][2]])
        bias == SameSizeCatEmbeddings_bias(a, embed_input)
        embed == IF a.shared_embed
                    THEN SameSizeCatEmbeddings_shared(a, embed_input)
                    ELSE SameSizeCatEmbeddings_single(a, n_tokens)
    IN  IF MissingKey(a.column_idx, categorical_cols) THEN Raise("KeyError")
        ELSE IF embed.outcome = "raise" THEN [embed EXCEPT !.warnings = bias.warnings]
        ELSE [Ok([cls |-> "SameSizeCatEmbeddings",
                  column_idx |-> a.column_idx,
                  embed_input |-> embed_input,
                  embed_dropout |-> a.cat_embed_dropout,
                  shared_embed |-> a.shared_embed,
                  n_tokens |-> n_tokens,
                  categorical_cols |-> categorical_cols,
                  cat_idx |-> [i \in 1..Len(embed_input) |-> a.column_idx[categorical_cols[i]]]]
                 @@ bias.attrs @@ embed.value)
              EXCEPT !.warnings = bias.warnings]

\* shared mode: the per-column outputs (N, D) stacked along a new axis 1
SameSizeCatEmbeddings_forward_shared(self, X, draw) ==
    LET cat_embed == [i \in 1..Len(self.embed_input) |->
                        LET col == self.embed_input[i][1] IN
                        IF col \notin DOMAIN self.column_idx THEN Raise("KeyError")
                        ELSE IF self.column_idx[col] + 1 > Len(X[1]) THEN Raise("IndexError")
                        ELSE SharedEmbeddings_forward(self.embed[col],
                                                      [n \in 1..Len(X) |-> X[n][self.column_idx[col] + 1]], draw)]
        bad == FirstRaise(cat_embed)
    IN  IF bad.outcome = "raise" THEN bad
        ELSE Ok([n \in 1..Len(X) |-> [i \in 1..Len(cat_embed) |-> cat_embed[i].value[n]]])

\* single-table mode: lookup in the merged table, the bias, the dropout
SameSizeCatEmbeddings_forward_single(self, X, draw) ==
    IF BeyondWidth(X, self.cat_idx) THEN Raise("IndexError")
    ELSE IF \E n \in 1..Len(X), i \in 1..Len(self.cat_idx) : X[n][self.cat_idx[i] + 1] \notin DOMAIN self.embed.weight
        THEN Raise("IndexError")
    ELSE IF ~HasAttr(self, "bias") THEN Raise("AttributeError")
    ELSE LET x == [n \in 1..Len(X) |-> [i \in 1..Len(self.cat_idx) |-> [d \in 1..Len(self.bias[i]) |->
                        Add(self.embed.weight[X[n][self.cat_idx[i] + 1]][d], self.bias[i][d])]]]
         IN  IF self.dropout.cls = "FullEmbeddingDropout"
                THEN FullEmbeddingDropout_forward(self.dropout, x, 3, draw)
                ELSE F_dropout3(x, self.dropout.p, draw)

SameSizeCatEmbeddings_forward(self, X, draw) ==
    IF self.shared_embed
        THEN SameSizeCatEmbeddings_forward_shared(self, X, draw)
        ELSE SameSizeCatEmbeddings_forward_single(self, X, draw)

(***************************************************************************)
(* SameSizeCatAndContEmbeddings                                            *)
(***************************************************************************)
\* the constructor sets cat_embed, cont_idx, cont_norm and cont_embed, and no
\* output_dim
SameSizeCatAndContEmbeddings_init(a) ==
    LET cat == IF ~a.cat_embed_input.isNone
                  THEN SameSizeCatEmbeddings_init(a, a.cat_embed_input.v)
                  ELSE Ok(<<>>)
        cont == ContBranch_init(a.column_idx, a.continuous_cols, a.embed_continuous, a.embed_dim,
                                a.cont_embed_dropout, a.cont_embed_activation, a.use_cont_bias,
                                a.cont_norm_layer)
    IN  IF cat.outcome = "raise" THEN cat
        ELSE IF cont.outcome = "raise" THEN [cont EXCEPT !.warnings = cat.warnings]
        ELSE [Ok([cls |-> "SameSizeCatAndContEmbeddings",
                  cat_embed_input |-> a.cat_embed_input,
                  continuous_cols |-> a.continuous_cols,
                  embed_continuous |-> a.embed_continuous]
                 @@ (IF a.cat_embed_input.isNone THEN <<>> ELSE [cat_embed |-> cat.value])
                 @@ cont.value)
              EXCEPT !.warnings = cat.warnings]

\* mutant: the categorical branch is run without the test against None
SameSizeCatAndContEmbeddings_forward_noNoneTest(self, X, draw) ==
    LET x_cat == IF HasAttr(self, "cat_embed")
                    THEN SameSizeCatEmbeddings_forward(self.cat_embed, X, draw)
                    ELSE Raise("AttributeError")
        x_cont == ContBranch_forward(self, X, draw)
    IN  IF x_cat.outcome = "raise" THEN x_cat
        ELSE IF x_cont.outcome = "raise" THEN x_cont
        ELSE Ok([x_cat |-> Some(x_cat.value), x_cont |-> x_cont.value])

\* (x_cat, x_cont): the embedded continuous columns keep the shape (N, C, D)
SameSizeCatAndContEmbeddings_forward(self, X, draw) ==
    LET x_cat == IF ~self.cat_embed_input.isNone
                    THEN SameSizeCatEmbeddings_forward(self.cat_embed, X, draw)
                    ELSE Ok(<<>>)
        x_cont == ContBranch_forward(self, X, draw)
    IN  IF x_cat.outcome = "raise" THEN x_cat
        ELSE IF x_cont.outcome = "raise" THEN x_cont
        ELSE Ok([x_cat |-> IF ~self.cat_embed_input.isNone THEN Some(x_cat.value) ELSE None,
                 x_cont |-> x_cont.value])

SameSizeCatAndContEmbeddings_after(self, X, draw) ==
    IF ~self.cat_embed_input.isNone /\ SameSizeCatEmbeddings_forward(self.cat_embed, X, draw).outcome = "raise"
        THEN self
        ELSE ContBranch_after(self, X)

(***************************************************************************)
(* The instance in use.                                                    *)
(***************************************************************************)
\* mlp_hidden_dims: List[int] = [200, 100]
TabMlp_default_mlp_hidden_dims == <<200, 100>>

Init ==
    /\ obj = NoObject
    /\ ret = NoCall
    /\ training = TRUE
    /\ lists = [default |-> TabMlp_default_mlp_hidden_dims, caller |-> <<>>]

\* a constructor that raises leaves no instance
NewObject(r) == IF r.outcome = "ok" THEN r.value ELSE NoObject

InitCall(arg, r) == [Call("init", arg, r) EXCEPT !.value = <<>>]

\* the instance and the list its caller has passed go out of use; the default
\* list stays with the function
Discard ==
    /\ ret # NoCall
    /\ obj' = NoObject
    /\ ret' = NoCall
    /\ training' = TRUE
    /\ lists' = [lists EXCEPT !.caller = <<>>]

\* the caller is done with what the last forward call returned or raised
Idle == [NoCall EXCEPT !.op = "idle"]

CanCall == ret.op \in {"init", "idle"}

DropResult ==
    /\ ret.op = "forward"
    /\ ret' = Idle
    /\ UNCHANGED <<obj, training>>
    /\ UNCHANGED lists

\* obj.train(mode), obj.eval()
SetMode ==
    /\ obj # NoObject
    /\ \E mode \in BOOLEAN : training' = mode
    /\ UNCHANGED <<obj, ret>>
    /\ UNCHANGED lists

(***************************************************************************)
(* A FullEmbeddingDropout instance in use, called on rank-2 tensors.       *)
(***************************************************************************)
\* the input tensors: any shape (N, W) within the bounds, positionally distinct
\* elements offset by a value v
Tensors2 ==
    {[n \in 1..N |-> [i \in 1..W |-> <<"x", v + (n - 1) * W + (i - 1)>>]] :
        N \in 1..MaxBatch, W \in 1..MaxWidth, v \in 0..MaxVal}

\* FullEmbeddingDropout(p); nn.Module.__init__ sets training = True
FedConstruct ==
    /\ ret = NoCall
    /\ \E p \in Probs :
          /\ obj' = NewObject(FullEmbeddingDropout_init(p))
          /\ ret' = InitCall([p |-> p], FullEmbeddingDropout_init(p))
    /\ training' = TRUE
    /\ UNCHANGED lists

\* obj(X)
FedForward ==
    /\ obj.cls = "FullEmbeddingDropout"
    /\ CanCall
    /\ \E X \in Tensors2, draw \in Draws :
          ret' = Call("forward", X, FullEmbeddingDropout_forward(obj, X, 2, draw))
    /\ UNCHANGED <<obj, training>>
    /\ UNCHANGED lists

(***************************************************************************)
(* A SharedEmbeddings instance in use, called on vectors of codes.         *)
(***************************************************************************)
\* the fractions a caller may pass: negative, 0, inside (0,1), 1, above 1
Fracs == {-FracDen, -1, 0, 1, 2, FracDen - 1, FracDen, FracDen + 2}

SeArgs ==
    [n_embed : 1..(MaxCard + 1), embed_dim : 1..MaxDim, embed_dropout : Probs,
     full_embed_dropout : BOOLEAN, add_shared_embed : BOOLEAN, frac_shared_embed : Fracs]

SeInitOf(a) ==
    SharedEmbeddings_init("se", a.n_embed, a.embed_dim, a.embed_dropout, a.full_embed_dropout,
                          a.add_shared_embed, a.frac_shared_embed)

\* code vectors of length 1..MaxBatch: runs of consecutive codes from any first
\* code; code MaxCard + 1 is beyond every table
CodeVectors ==
    {[n \in 1..N |-> (c + n - 1) % (MaxCard + 2)] : N \in 1..MaxBatch, c \in 0..(MaxCard + 1)}

\* SharedEmbeddings(n_embed, embed_dim, embed_dropout, ...)
SeConstruct ==
    /\ ret = NoCall
    /\ \E a \in SeArgs :
          /\ obj' = NewObject(SeInitOf(a))
          /\ ret' = InitCall(a, SeInitOf(a))
    /\ training' = TRUE
    /\ UNCHANGED lists

\* obj(X)
SeForward ==
    /\ obj.cls = "SharedEmbeddings"
    /\ CanCall
    /\ \E X \in CodeVectors, draw \in Draws :
          ret' = Call("forward", X, SharedEmbeddings_forward(obj, X, draw))
    /\ UNCHANGED <<obj, training>>
    /\ UNCHANGED lists

(***************************************************************************)
(* A composite embedder in use.  The configurations are those of a table   *)
(* with the columns a, b, c, d, e: a base configuration varied along a few *)
(* of its arguments at a time, and the configuration of the TabMlp         *)
(* docstring.  The batches have any number of rows and a full or a short   *)
(* width.                                                                  *)
(***************************************************************************)
ColumnIdx == [a |-> 0, b |-> 1, c |-> 2, d |-> 3, e |-> 4]

\* the same table with a cls_token column put in front
ClsColumnIdx == [cls_token |-> 0, a |-> 1, b |-> 2, c |-> 3, e |-> 4]

\* the column lists of a spec; zz is no column of the table
CatNames == {<<"a">>, <<"b", "a">>, <<"a", "zz">>}

ContCols == {None, Some(<<"e">>), Some(<<"e", "c">>), Some(<<"zz">>)}

Activations == {None, Some("relu")}

NormLayers == {"layernorm", "batchnorm", "none"}

\* (name, cardinality, width): one cardinality for all columns, widths that
\* grow along the spec
DiffCatSpec(names, card, width) == [i \in 1..Len(names) |-> <<names[i], card, width + i - 1>>]

\* cat_embed_input of the TabMlp docstring: four columns of cardinality 4 and
\* width 8
DocCatInput == [i \in 1..4 |-> <<(<<"a", "b", "c", "d">>)[i], 4, 8>>]

DiffCatInputs ==
    {None, Some(DocCatInput)}
    \cup {Some(DiffCatSpec(names, card, width)) : names \in CatNames, card \in {1, MaxCard}, width \in {1, MaxDim - 1}}

DiffBase ==
    DiffArgs(ColumnIdx, Some(DiffCatSpec(<<"b", "a">>, 1, 1)), 1, Some(<<"e">>), FALSE, 2, 1, None, TRUE, "none")

DiffConfigs ==
    {[DiffBase EXCEPT !.cat_embed_input = cat, !.continuous_cols = cont, !.embed_continuous = ec, !.cont_embed_dim = dim] :
        cat \in DiffCatInputs, cont \in ContCols, ec \in BOOLEAN, dim \in {1, MaxDim}}
    \cup {[DiffBase EXCEPT !.cat_embed_input = cat, !.cat_embed_dropout = p, !.continuous_cols = cont,
                           !.embed_continuous = ec, !.cont_embed_dropout = q] :
            cat \in {None, DiffBase.cat_embed_input}, p \in Probs, cont \in {None, DiffBase.continuous_cols},
            ec \in BOOLEAN, q \in Probs}
    \cup {[DiffBase EXCEPT !.embed_continuous = ec, !.cont_embed_activation = act, !.use_cont_bias = b,
                           !.cont_norm_layer = norm] :
            ec \in BOOLEAN, act \in Activations, b \in BOOLEAN, norm \in NormLayers}
    \cup {[DiffBase EXCEPT !.column_idx = ClsColumnIdx,
                           !.cat_embed_input = Some(DiffCatSpec(<<"cls_token", "a">>, card, 1))] :
            card \in {1, MaxCard}}

\* (name, cardinality)
SameCatSpec(names, card) == [i \in 1..Len(names) |-> <<names[i], card>>]

SameCatInputs == {None} \cup {Some(SameCatSpec(names, card)) : names \in CatNames, card \in {1, MaxCard}}

SameBase ==
    SameArgs(2, ColumnIdx, Some(SameCatSpec(<<"b", "a">>, 1)), 1, FALSE, FALSE, FALSE, 1, "False",
             Some(<<"e">>), FALSE, 1, None, TRUE, "none")

SameConfigs ==
    {[SameBase EXCEPT !.embed_dim = dim, !.cat_embed_input = cat, !.shared_embed = sh, !.continuous_cols = cont,
                      !.embed_continuous = ec] :
        dim \in {1, MaxDim}, cat \in SameCatInputs, sh \in BOOLEAN, cont \in ContCols, ec \in BOOLEAN}
    \cup {[SameBase EXCEPT !.embed_dim = dim, !.cat_embed_input = cat, !.shared_embed = sh, !.add_shared_embed = add,
                           !.frac_shared_embed = frac, !.full_embed_dropout = full] :
            dim \in {1, MaxDim}, cat \in {None, SameBase.cat_embed_input}, sh \in BOOLEAN, add \in BOOLEAN,
            frac \in Fracs, full \in BOOLEAN}
    \cup {[SameBase EXCEPT !.cat_embed_input = cat, !.cat_embed_dropout = p, !.full_embed_dropout = full,
                           !.shared_embed = sh, !.embed_continuous = ec, !.cont_embed_dropout = q] :
            cat \in {None, SameBase.cat_embed_input}, p \in Probs, full \in BOOLEAN, sh \in BOOLEAN,
            ec \in BOOLEAN, q \in Probs}
    \cup {[SameBase EXCEPT !.use_embed_bias = b, !.shared_embed = sh, !.full_embed_dropout = full,
                           !.cont_norm_layer = norm] :
            b \in {"True", "False"}, sh \in BOOLEAN, full \in BOOLEAN, norm \in NormLayers}
    \cup {[SameBase EXCEPT !.column_idx = ClsColumnIdx,
                           !.cat_embed_input = Some(SameCatSpec(<<"cls_token", "a">>, card)),
                           !.shared_embed = sh] :
            card \in {1, MaxCard}, sh \in BOOLEAN}

\* batches of N rows and F columns whose values run through 0..m-1
Batches ==
    {[n \in 1..N |-> [f \in 1..F |-> (n + f) % m]] :
        N \in 1..MaxBatch, F \in {1, 5}, m \in {2, MaxCard + 2}}

\* DiffSizeCatAndContEmbeddings(column_idx, cat_embed_input, ...)
DiffConstruct ==
    /\ ret = NoCall
    /\ \E a \in DiffConfigs :
          /\ obj' = NewObject(DiffSizeCatAndContEmbeddings_init(a))
          /\ ret' = InitCall(a, DiffSizeCatAndContEmbeddings_init(a))
    /\ training' = TRUE
    /\ UNCHANGED lists

\* obj(X); a BatchNorm1d layer counts at most MaxTracked training batches
DiffForward ==
    /\ obj.cls = "DiffSizeCatAndContEmbeddings"
    /\ CanCall
    /\ TrackedBelowBound(obj)
    /\ \E X \in Batches, draw \in Draws :
          /\ ret' = Call("forward", X, DiffSizeCatAndContEmbeddings_forward(obj, X, draw))
          /\ obj' = DiffSizeCatAndContEmbeddings_after(obj, X, draw)
    /\ UNCHANGED training
    /\ UNCHANGED lists

\* SameSizeCatAndContEmbeddings(embed_dim, column_idx, cat_embed_input, ...)
SameConstruct ==
    /\ ret = NoCall
    /\ \E a \in SameConfigs :
          /\ obj' = NewObject(SameSizeCatAndContEmbeddings_init(a))
          /\ ret' = InitCall(a, SameSizeCatAndContEmbeddings_init(a))
    /\ training' = TRUE
    /\ UNCHANGED lists

\* obj(X)
SameForward ==
    /\ obj.cls = "SameSizeCatAndContEmbeddings"
    /\ CanCall
    /\ TrackedBelowBound(obj)
    /\ \E X \in Batches, draw \in Draws :
          /\ ret' = Call("forward", X, SameSizeCatAndContEmbeddings_forward(obj, X, draw))
          /\ obj' = SameSizeCatAndContEmbeddings_after(obj, X, draw)
    /\ UNCHANGED training
    /\ UNCHANGED lists

(***************************************************************************)
(* TabMlp: the variable-width composite, built by the base class from the  *)
(* embedding arguments, and an MLP on top of it.  Python passes a list by  *)
(* reference: mlp_hidden_dims names the default list of the function or    *)
(* the list of the caller, and self.mlp_hidden_dims is that same list.     *)
(***************************************************************************)
\* super().__init__(...): the base class constructs self.cat_and_cont_embed
\* from the embedding arguments
BaseTabularModelWithoutAttention_init(a) == DiffSizeCatAndContEmbeddings_init(a)

\* mlp_hidden_dims = [mlp_input_dim] + mlp_hidden_dims: + builds a new list,
\* which the local name is bound to
TabMlp_layer_sizes(mlp_input_dim, mlp_hidden_dims) == <<mlp_input_dim>> \o mlp_hidden_dims

\* mutant: mlp_hidden_dims.insert(0, mlp_input_dim), in place
TabMlp_hidden_after_insertedInPlace(mlp_input_dim, mlp_hidden_dims) == <<mlp_input_dim>> \o mlp_hidden_dims

\* the list that was passed, after the constructor has run: no statement
\* writes to it
TabMlp_hidden_after(mlp_input_dim, mlp_hidden_dims) == mlp_hidden_dims

\* ref names the list that was passed and mlp_hidden_dims is what it holds;
\* the other MLP arguments go to MLP(...) as they are
TabMlp_init(a, ref, mlp_hidden_dims) ==
    LET base == BaseTabularModelWithoutAttention_init(a) IN
    IF base.outcome = "raise" THEN base
    ELSE LET sizes == TabMlp_layer_sizes(base.value.output_dim, mlp_hidden_dims) IN
         Ok([cls |-> "TabMlp",
             cat_and_cont_embed |-> base.value,
             mlp_hidden_dims |-> ref,
             tab_mlp |-> [cls |-> "MLP", d_hidden |-> sizes],
             output_dim |-> sizes[Len(sizes)]])

\* the embedding arguments of a TabMlp
TabMlpConfigs ==
    {[DiffBase EXCEPT !.cat_embed_input = cat, !.continuous_cols = cont, !.embed_continuous = ec] :
        cat \in {None, Some(DocCatInput), DiffBase.cat_embed_input},
        cont \in {None, Some(<<"e">>), Some(<<"zz">>)}, ec \in BOOLEAN}

\* mlp_hidden_dims as the caller gives it: left out, or a list of the caller
HiddenArgs == {None, Some(<<8, 4>>), Some(<<3>>)}

\* TabMlp(column_idx, ..., mlp_hidden_dims=...)
TabMlpConstruct ==
    /\ ret = NoCall
    /\ \E a \in TabMlpConfigs, passed \in HiddenArgs :
          LET ref == IF passed.isNone THEN "default" ELSE "caller"
              held == IF passed.isNone THEN lists ELSE [lists EXCEPT !.caller = passed.v]
              r == TabMlp_init(a, ref, held[ref])
          IN  /\ obj' = NewObject(r)
              /\ ret' = InitCall([embed_args |-> a, mlp_hidden_dims |-> passed], r)
              /\ lists' = IF r.outcome = "ok"
                             THEN [held EXCEPT ![ref] =
                                      TabMlp_hidden_after(r.value.cat_and_cont_embed.output_dim, held[ref])]
                             ELSE held
    /\ training' = TRUE

Next ==
    \/ FedConstruct \/ FedForward
    \/ SeConstruct \/ SeForward
    \/ DiffConstruct \/ DiffForward
    \/ SameConstruct \/ SameForward
    \/ TabMlpConstruct
    \/ SetMode \/ DropResult \/ Discard

Spec == Init /\ [][Next]_vars

(***************************************************************************)
(* Claims on FullEmbeddingDropout.                                         *)
(***************************************************************************)
FedForwardDone == obj.cls = "FullEmbeddingDropout" /\ ret.op = "forward"

\* C4: in evaluation mode forward returns its input X unchanged, element for
\* element, whatever accepted p the instance was constructed with.
C4_EvalIsIdentity ==
    (FedForwardDone /\ ~ret.training) => (ret.outcome = "ok" /\ ret.value = ret.arg)

C4_Witness ==
    /\ FedForwardDone /\ ~ret.training
    /\ obj.p = ProbDen \div 2
    /\ Len(ret.arg) = 2 /\ Len(ret.arg[1]) = 2
    /\ ret.value = ret.arg

\* C5 (as claimed): in training mode with p = 0 forward completes and returns a
\* tensor equal to X element for element.
C5_TrainP0IsIdentity ==
    (FedForwardDone /\ ret.training /\ obj.p = 0) => (ret.outcome = "ok" /\ ret.value = ret.arg)

\* C6 (as claimed): in training mode with 0 < p < 1 forward returns a tensor each
\* of whose batch rows (dimension 0) is entirely zero or the input row times
\* 1/(1-p).
C6_TrainDropsWholeRows ==
    (FedForwardDone /\ ret.training /\ 0 < obj.p /\ obj.p < ProbDen) =>
        /\ ret.outcome = "ok"
        /\ Len(ret.value) = Len(ret.arg)
        /\ \A n \in 1..Len(ret.arg) :
              \/ ret.value[n] = [i \in 1..Len(ret.arg[n]) |-> Zero]
              \/ ret.value[n] = [i \in 1..Len(ret.arg[n]) |-> Scale(obj.p, ret.arg[n][i])]

(***************************************************************************)
(* Claims on SharedEmbeddings.                                             *)
(***************************************************************************)
SeForwardDone == obj.cls = "SharedEmbeddings" /\ ret.op = "forward"

SeInitDone == ret.op = "init" /\ "n_embed" \in DOMAIN ret.arg

DiffInitDone == ret.op = "init" /\ "cont_embed_dim" \in DOMAIN ret.arg

SameInitDone == ret.op = "init" /\ "use_embed_bias" \in DOMAIN ret.arg

ValidProb(p) == 0 <= p /\ p <= ProbDen

CodesInTable(self, X) == \A n \in 1..Len(X) : X[n] \in DOMAIN self.embed.weight

SeWidth(self) == Len(self.embed.weight[0])

\* the dropout layer of the instance leaves its input as it is: evaluation
\* mode, or nn.Dropout with p = 0
DropoutInactive == ~ret.training \/ (obj.dropout.cls = "Dropout" /\ obj.dropout.p = 0)

\* C7: in additive mode with dropout inactive forward returns, for the code
\* vector X of length N, N rows of width D with
\* row n = table[X[n]] + shared vector, the shared vector being D wide.
C7_AdditiveIsLookupPlusShared ==
    (SeForwardDone /\ DropoutInactive /\ obj.add_shared_embed /\ CodesInTable(obj, ret.arg)) =>
        /\ ret.outcome = "ok"
        /\ Len(obj.shared_embed) = SeWidth(obj)
        /\ ret.value = [n \in 1..Len(ret.arg) |-> [d \in 1..SeWidth(obj) |->
                            Add(obj.embed.weight[ret.arg[n]][d], obj.shared_embed[d])]]

C7_Witness ==
    /\ SeForwardDone /\ ~ret.training /\ obj.add_shared_embed
    /\ ret.outcome = "ok"
    /\ Len(ret.arg) = 2 /\ ret.arg[1] # ret.arg[2] /\ ret.arg[2] # 0
    /\ SeWidth(obj) = 2
    /\ ret.value[2][2] = Add(<<"w", "se", ret.arg[2], 2>>, <<"shared", "se", 2>>)

\* C8: an overwrite-mode instance has a shared vector of width
\* int(D * frac_shared_embed) < D, and with dropout inactive
\* forward returns rows whose first shared_width elements are the shared vector
\* and whose other elements are the table lookup table[X[n]].
C8_OverwriteKeepsTail ==
    /\ (SeInitDone /\ ret.outcome = "ok" /\ ~ret.arg.add_shared_embed) =>
            /\ Len(obj.shared_embed) = IntTrunc(ret.arg.embed_dim * ret.arg.frac_shared_embed, FracDen)
            /\ Len(obj.shared_embed) < ret.arg.embed_dim
    /\ (SeForwardDone /\ DropoutInactive /\ ~obj.add_shared_embed /\ CodesInTable(obj, ret.arg)) =>
            /\ ret.outcome = "ok"
            /\ Len(obj.shared_embed) < SeWidth(obj)
            /\ ret.value = [n \in 1..Len(ret.arg) |-> [d \in 1..SeWidth(obj) |->
                                IF d <= Len(obj.shared_embed)
                                    THEN obj.shared_embed[d]
                                    ELSE obj.embed.weight[ret.arg[n]][d]]]

C8_Witness ==
    /\ SeForwardDone /\ ~ret.training /\ ~obj.add_shared_embed
    /\ ret.outcome = "ok"
    /\ SeWidth(obj) = 3 /\ Len(obj.shared_embed) = 1
    /\ Len(ret.arg) = 2 /\ ret.arg[2] # 0
    /\ ret.value[2] = <<(<<"shared", "se", 1>>), (<<"w", "se", ret.arg[2], 2>>), (<<"w", "se", ret.arg[2], 3>>)>>

\* C9: construction with frac_shared_embed >= 1 raises in every
\* shared-embedding configuration: SharedEmbeddings in additive and in
\* overwrite mode, and the fixed-width embedder with shared_embed and at least
\* one categorical column; no instance is left.
C9_FractionAtLeastOneRaises ==
    /\ (SeInitDone /\ ret.arg.frac_shared_embed >= FracDen) =>
            (ret.outcome = "raise" /\ obj = NoObject)
    /\ (SameInitDone /\ ret.arg.shared_embed /\ ~ret.arg.cat_embed_input.isNone
            /\ ret.arg.frac_shared_embed >= FracDen) =>
            (Len(ret.arg.cat_embed_input.v) >= 1 => (ret.outcome = "raise" /\ obj = NoObject))

C9_Witness ==
    /\ SeInitDone
    /\ ret.arg.add_shared_embed
    /\ ret.arg.frac_shared_embed = FracDen
    /\ ValidProb(ret.arg.embed_dropout)
    /\ ret.error = "AssertionError"
    /\ obj = NoObject

(***************************************************************************)
(* Claims on the composite embedders.                                      *)
(***************************************************************************)
Composite == obj.cls \in {"DiffSizeCatAndContEmbeddings", "SameSizeCatAndContEmbeddings"}

\* the last dimension of a branch of the forward output, 0 for None
BranchWidth(x) == IF x.isNone THEN 0 ELSE Len(x.v[1])

DiffForwardOk ==
    obj.cls = "DiffSizeCatAndContEmbeddings" /\ ret.op = "forward" /\ ret.outcome = "ok"

\* C1: whenever forward of the variable-width composite returns, for a batch of
\* any size N >= 1, output_dim equals the width of x_cat (0 if None) plus the
\* width of x_cont (0 if None), in every row.
C1_OutputDimIsForwardWidth ==
    DiffForwardOk =>
        /\ obj.output_dim = BranchWidth(ret.value.x_cat) + BranchWidth(ret.value.x_cont)
        /\ \A n \in 1..Len(ret.arg) :
              obj.output_dim = (IF ret.value.x_cat.isNone THEN 0 ELSE Len(ret.value.x_cat.v[n]))
                               + (IF ret.value.x_cont.isNone THEN 0 ELSE Len(ret.value.x_cont.v[n]))

C1_Witness ==
    /\ DiffForwardOk
    /\ Len(ret.arg) = 2
    /\ ~ret.value.x_cat.isNone /\ Len(ret.value.x_cat.v[1]) = 3
    /\ ~ret.value.x_cont.isNone /\ obj.embed_continuous /\ Len(ret.value.x_cont.v[1]) = 2 * MaxDim
    /\ obj.output_dim = 3 + 2 * MaxDim

\* C2: the variable-width composite has, right after construction, output_dim =
\* (sum of the widths of the categorical spec) + (C * cont_embed_dim if the C
\* continuous columns are embedded, else C); the docstring's four columns of
\* width 8 plus one plain continuous column give cat_out_dim 32 and
\* output_dim 33.
C2_OutputDimFromSpecs ==
    (DiffInitDone /\ ret.outcome = "ok") =>
        /\ obj.output_dim =
              (IF ret.arg.cat_embed_input.isNone THEN 0
               ELSE SumSeq([i \in 1..Len(ret.arg.cat_embed_input.v) |-> ret.arg.cat_embed_input.v[i][3]]))
              + (IF ret.arg.continuous_cols.isNone THEN 0
                 ELSE IF ret.arg.embed_continuous
                    THEN Len(ret.arg.continuous_cols.v) * ret.arg.cont_embed_dim
                    ELSE Len(ret.arg.continuous_cols.v))
        /\ (ret.arg.cat_embed_input = Some(DocCatInput) /\ ret.arg.continuous_cols = Some(<<"e">>)
                /\ ~ret.arg.embed_continuous)
              => (obj.cat_out_dim = 32 /\ obj.output_dim = 33)

C2_Witness ==
    /\ DiffInitDone /\ ret.outcome = "ok"
    /\ ret.arg.cat_embed_input = Some(DocCatInput)
    /\ ret.arg.continuous_cols = Some(<<"e">>)
    /\ ~ret.arg.embed_continuous
    /\ obj.cat_out_dim = 32
    /\ obj.output_dim = 33

NoColumns(x) == x.cat_embed_input.isNone /\ x.continuous_cols.isNone

C10_InvalidProbabilityFailsConstruction ==
    (Composite /\ ret.op = "forward" /\ ret.error = "ValueError") =>
        ~(HasAttr(obj, "cont_embed") /\ ~ValidProb(obj.cont_embed.embed_dropout))

(***************************************************************************)
(* Claims on the constructor of FullEmbeddingDropout.                      *)
(***************************************************************************)
FedInitDone == ret.op = "init" /\ DOMAIN ret.arg = {"p"}

\* C11: FullEmbeddingDropout(p) raises ValueError exactly when p < 0 or p > 1:
\* every p in [0,1], 0 and 1 included, is accepted and stored, and every other
\* p is rejected and leaves no instance.
C11_ConstructorAcceptsClosedInterval ==
    FedInitDone =>
        IF 0 <= ret.arg.p /\ ret.arg.p <= ProbDen
            THEN ret.outcome = "ok" /\ obj.cls = "FullEmbeddingDropout" /\ obj.p = ret.arg.p
            ELSE ret.outcome = "raise" /\ ret.error = "ValueError" /\ obj = NoObject

C11_Witness ==
    /\ FedInitDone
    /\ ret.arg.p = ProbDen
    /\ ret.outcome = "ok"
    /\ obj.p = ProbDen

(***************************************************************************)
(* Claims on the bias of SameSizeCatEmbeddings.                            *)
(***************************************************************************)
\* a tensor element is computed from an element of a bias parameter
RECURSIVE MentionsBias(_)
MentionsBias(t) ==
    CASE t[1] = "bias" -> TRUE
      [] t[1] \in {"add", "mul"} -> MentionsBias(t[2]) \/ MentionsBias(t[3])
      [] t[1] \in {"scale", "act"} -> MentionsBias(t[3])
      [] t[1] = "layernorm" -> MentionsBias(t[2])
      [] t[1] = "batchnorm" -> MentionsBias(t[4])
      [] OTHER -> FALSE

\* the constructor of the fixed-width composite has built a categorical embedder
SameCatInitDone == SameInitDone /\ ~ret.arg.cat_embed_input.isNone

\* forward of a fixed-width composite with a categorical embedder has returned
SameCatForwardOk ==
    /\ obj.cls = "SameSizeCatAndContEmbeddings"
    /\ ~obj.cat_embed_input.isNone
    /\ ret.op = "forward"
    /\ ret.outcome = "ok"

\* C12 (as claimed): with use_bias requested in shared-embedding mode the
\* constructor warns and, its other arguments being valid, succeeds; the
\* warning is emitted only when the bias was requested; the output of forward
\* in shared-embedding mode is computed from no bias value.
C12_WarnsOnlyWhenBiasRequested ==
    /\ (SameCatInitDone /\ ret.arg.shared_embed /\ ret.arg.use_embed_bias = "True"
            /\ ret.error # "KeyError") => "UserWarning" \in ret.warnings
    /\ (SameCatInitDone /\ ret.arg.shared_embed /\ ret.arg.use_embed_bias = "True"
            /\ ~MissingKey(ret.arg.column_idx, [i \in 1..Len(ret.arg.cat_embed_input.v) |-> ret.arg.cat_embed_input.v[i][1]])
            /\ (ret.arg.continuous_cols.isNone \/ ~MissingKey(ret.arg.column_idx, ret.arg.continuous_cols.v))
            /\ ValidProb(ret.arg.cat_embed_dropout)
            /\ 0 < ret.arg.frac_shared_embed /\ ret.arg.frac_shared_embed < FracDen) => ret.outcome = "ok"
    /\ (SameCatInitDone /\ ret.outcome = "ok" /\ "UserWarning" \in ret.warnings) =>
            ret.arg.use_embed_bias = "True"
    /\ (SameCatForwardOk /\ obj.cat_embed.shared_embed) =>
            \A n \in 1..Len(ret.value.x_cat.v) : \A s \in 1..Len(ret.value.x_cat.v[n]) :
                \A d \in 1..Len(ret.value.x_cat.v[n][s]) : ~MentionsBias(ret.value.x_cat.v[n][s][d])

\* C13 (as claimed): in single-table mode the bias is optional.  In the forward
\* call that follows a construction, with use_bias on x_cat is the lookup plus
\* one bias row per column (dropout inactive: evaluation mode); with use_bias
\* off (False) x_cat is computed from no bias value; in neither case does
\* forward fail for want of the bias attribute.
C13_BiasIsOptional ==
    [][(SameCatInitDone /\ ret.outcome = "ok" /\ ~ret.arg.shared_embed /\ ret'.op = "forward") =>
        /\ ret'.error # "AttributeError" \/ (ret'.training /\ ret.arg.full_embed_dropout)
        /\ (ret'.outcome = "ok" /\ ret.arg.use_embed_bias = "True" /\ ~ret'.training) =>
                \A n \in 1..Len(ret'.arg) : \A s \in 1..Len(obj.cat_embed.cat_idx) :
                    \A d \in 1..ret.arg.embed_dim :
                        ret'.value.x_cat.v[n][s][d] =
                            Add(obj.cat_embed.embed.weight[ret'.arg[n][obj.cat_embed.cat_idx[s] + 1]][d],
                                obj.cat_embed.bias[s][d])
        /\ (ret'.outcome = "ok" /\ ret.arg.use_embed_bias = "False") =>
                \A n \in 1..Len(ret'.arg) : \A s \in 1..Len(ret'.value.x_cat.v[n]) :
                    \A d \in 1..Len(ret'.value.x_cat.v[n][s]) :
                        ~MentionsBias(ret'.value.x_cat.v[n][s][d])
      ]_vars

(***************************************************************************)
(* Claims on the continuous branch.                                        *)
(***************************************************************************)
\* forward of a composite with embedded continuous columns has returned
ContEmbedForwardOk ==
    /\ Composite
    /\ ~obj.continuous_cols.isNone /\ obj.embed_continuous
    /\ ret.op = "forward" /\ ret.outcome = "ok"

\* the element (n, c) ContEmbeddings is given in evaluation mode: the value of
\* continuous column c in row n of the batch, normalized
ContInput(n, c) ==
    LET x == <<"x", n, obj.cont_idx[c], ret.arg[n][obj.cont_idx[c] + 1]>> IN
    CASE obj.cont_norm.cls = "LayerNorm" -> <<"layernorm", x>>
      [] obj.cont_norm.cls = "BatchNorm1d" -> <<"batchnorm", "running", obj.cont_norm.num_batches_tracked, x>>
      [] OTHER -> x

\* the element (n, c, d) of what ContEmbeddings has returned: the
\* variable-width composite holds it at position c*D + d of row n
ContOutput(n, c, d) ==
    IF obj.cls = "DiffSizeCatAndContEmbeddings"
        THEN ret.value.x_cont.v[n][(c - 1) * obj.cont_embed.embed_dim + d]
        ELSE ret.value.x_cont.v[n][c][d]

\* the same element before the activation
ContPreActivation(n, c, d) ==
    IF obj.cont_embed.act_fn.isNone THEN ContOutput(n, c, d) ELSE ContOutput(n, c, d)[3]

\* C14: ContEmbeddings.forward on an input (N, C) returns N x C x D elements
\* which, before the activation and in evaluation mode, are
\* weight[c,d] * input[n,c] + bias[c,d], the bias only with use_bias: the
\* output of column c is computed from the input and the parameters of column
\* c alone.
C14_ContEmbeddingsIsAffinePerColumn ==
    (ContEmbedForwardOk /\ ~ret.training) =>
        /\ obj.cls = "SameSizeCatAndContEmbeddings" =>
              /\ Len(ret.value.x_cont.v) = Len(ret.arg)
              /\ \A n \in 1..Len(ret.arg) :
                    /\ Len(ret.value.x_cont.v[n]) = Len(obj.continuous_cols.v)
                    /\ \A c \in 1..Len(obj.continuous_cols.v) :
                          Len(ret.value.x_cont.v[n][c]) = obj.cont_embed.embed_dim
        /\ \A n \in 1..Len(ret.arg) : \A c \in 1..Len(obj.continuous_cols.v) :
              \A d \in 1..obj.cont_embed.embed_dim :
                  ContPreActivation(n, c, d) =
                      IF obj.cont_embed.use_bias
                          THEN Add(Mul(obj.cont_embed.weight[c][d], ContInput(n, c)), obj.cont_embed.bias.v[c][d])
                          ELSE Mul(obj.cont_embed.weight[c][d], ContInput(n, c))

C14_Witness ==
    /\ ContEmbedForwardOk /\ ~ret.training
    /\ obj.cls = "SameSizeCatAndContEmbeddings"
    /\ Len(ret.arg) = 2
    /\ obj.continuous_cols.v = <<"e", "c">>
    /\ obj.cont_embed.embed_dim = MaxDim
    /\ obj.cont_embed.use_bias
    /\ ret.value.x_cont.v[2][2][MaxDim] =
          Add(Mul(<<"weight", 2, MaxDim>>, <<"x", 2, 2, ret.arg[2][3]>>), <<"bias", 2, MaxDim>>)

(***************************************************************************)
(* Claims on the categorical embedders.                                    *)
(***************************************************************************)
\* a variable-width composite that holds a DiffSizeCatEmbeddings
HasDiffCat == obj.cls = "DiffSizeCatAndContEmbeddings" /\ ~obj.cat_embed_input.isNone

\* C15: DiffSizeCatEmbeddings holds, per categorical column, a table of its
\* own with cardinality + 1 rows of the column's width; emb_out_dim is the sum
\* of the widths; with dropout inactive forward returns N rows, each the
\* concatenation, in the order of the spec, of the rows table_i[code], the
\* code of column i read at position column_idx[col_i] of the batch row.
C15_DiffCatIsConcatOfLookups ==
    HasDiffCat =>
        LET self == obj.cat_embed
            k == Len(self.embed_input)
            col(i) == self.embed_input[i][1]
            code(n, i) == ret.arg[n][self.column_idx[col(i)] + 1]
        IN  /\ self.emb_out_dim = SumSeq([i \in 1..k |-> self.embed_input[i][3]])
            /\ DOMAIN self.embed_layers = {col(i) : i \in 1..k}
            /\ \A i \in 1..k :
                  /\ DOMAIN self.embed_layers[col(i)].weight = 0..self.embed_input[i][2]
                  /\ \A r \in 0..self.embed_input[i][2] :
                        /\ Len(self.embed_layers[col(i)].weight[r]) = self.embed_input[i][3]
                        /\ \A j \in 1..k : (j # i /\ r > 0) =>
                              \A d \in 1..self.embed_input[i][3] : \A e \in 1..self.embed_input[j][3] :
                                  self.embed_layers[col(i)].weight[r][d] # self.embed_layers[col(j)].weight[r][e]
            /\ (ret.op = "forward" /\ ret.outcome = "ok"
                    /\ (~ret.training \/ self.embedding_dropout.p = 0)) =>
                  /\ Len(ret.value.x_cat.v) = Len(ret.arg)
                  /\ \A n \in 1..Len(ret.arg) :
                        /\ Len(ret.value.x_cat.v[n]) = SumSeq([i \in 1..k |-> self.embed_input[i][3]])
                        /\ ret.value.x_cat.v[n] =
                              Concat([i \in 1..k |-> self.embed_layers[col(i)].weight[code(n, i)]])

C15_Witness ==
    /\ HasDiffCat
    /\ ret.op = "forward" /\ ret.outcome = "ok" /\ ~ret.training
    /\ Len(ret.arg) = 2
    /\ obj.cat_embed.embed_input = <<(<<"b", MaxCard, 2>>), (<<"a", MaxCard, 3>>)>>
    /\ ret.arg[1][2] = 1 /\ ret.arg[2][1] = 1
    /\ ret.value.x_cat.v[1] = <<(<<"w", "b", 1, 1>>), (<<"w", "b", 1, 2>>), Zero, Zero, Zero>>
    /\ ret.value.x_cat.v[2] = <<Zero, Zero, (<<"w", "a", 1, 1>>), (<<"w", "a", 1, 2>>), (<<"w", "a", 1, 3>>)>>

\* a fixed-width composite that holds a SameSizeCatEmbeddings
HasSameCat == obj.cls = "SameSizeCatAndContEmbeddings" /\ ~obj.cat_embed_input.isNone

\* C16 (as claimed): every code in [0, cardinality] is a row of its table: each
\* per-column table, of the variable-width embedder and of the shared-mode
\* embedder, has exactly cardinality + 1 rows whatever the name of the column,
\* and the merged table has (sum of the cardinalities) + 1 rows.
C16_TablesHaveCardinalityPlusOneRows ==
    /\ HasDiffCat =>
          \A i \in 1..Len(obj.cat_embed.embed_input) :
              DOMAIN obj.cat_embed.embed_layers[obj.cat_embed.embed_input[i][1]].weight
                  = 0..obj.cat_embed.embed_input[i][2]
    /\ (HasSameCat /\ obj.cat_embed.shared_embed) =>
          \A i \in 1..Len(obj.cat_embed.embed_input) :
              DOMAIN obj.cat_embed.embed[obj.cat_embed.embed_input[i][1]].embed.weight
                  = 0..obj.cat_embed.embed_input[i][2]
    /\ (HasSameCat /\ ~obj.cat_embed.shared_embed) =>
          DOMAIN obj.cat_embed.embed.weight
              = 0..SumSeq([i \in 1..Len(obj.cat_embed.embed_input) |-> obj.cat_embed.embed_input[i][2]])

\* forward of a composite with continuous columns has returned
ContForwardOk ==
    /\ Composite
    /\ ~obj.continuous_cols.isNone
    /\ ret.op = "forward" /\ ret.outcome = "ok"

\* the weight element an embedded element was computed from, in evaluation mode
WeightOf(t) ==
    LET pre == IF t[1] = "act" THEN t[3] ELSE t
    IN  IF pre[1] = "add" THEN pre[2][2] ELSE pre[2]

\* C17: with continuous embedding the variable-width composite returns x_cont
\* as N rows of C*D elements, the embedded element (c, d) at (0-based)
\* position c*D + d, and the fixed-width composite returns it as N x C x D;
\* without continuous embedding both return N rows of C elements.
C17_FlattenedOnlyInVariableWidth ==
    ContForwardOk =>
        LET x_cont == ret.value.x_cont.v
            C == Len(obj.continuous_cols.v)
        IN  /\ Len(x_cont) = Len(ret.arg)
            /\ \A n \in 1..Len(ret.arg) :
                  IF ~obj.embed_continuous
                      THEN /\ Len(x_cont[n]) = C
                           /\ \A c \in 1..C : x_cont[n][c][1] \in {"x", "layernorm", "batchnorm"}
                  ELSE IF obj.cls = "DiffSizeCatAndContEmbeddings"
                      THEN /\ Len(x_cont[n]) = C * obj.cont_embed.embed_dim
                           /\ ~ret.training =>
                                 \A c \in 1..C : \A d \in 1..obj.cont_embed.embed_dim :
                                     WeightOf(x_cont[n][(c - 1) * obj.cont_embed.embed_dim + d])
                                         = obj.cont_embed.weight[c][d]
                      ELSE /\ Len(x_cont[n]) = C
                           /\ \A c \in 1..C :
                                 /\ Len(x_cont[n][c]) = obj.cont_embed.embed_dim
                                 /\ ~ret.training =>
                                       \A d \in 1..obj.cont_embed.embed_dim :
                                           WeightOf(x_cont[n][c][d]) = obj.cont_embed.weight[c][d]

C17_Witness ==
    /\ ContForwardOk /\ ~ret.training
    /\ obj.cls = "DiffSizeCatAndContEmbeddings"
    /\ obj.embed_continuous
    /\ obj.continuous_cols.v = <<"e", "c">>
    /\ obj.cont_embed.embed_dim = MaxDim
    /\ Len(ret.arg) = 2
    /\ Len(ret.value.x_cont.v[2]) = 2 * MaxDim
    /\ WeightOf(ret.value.x_cont.v[2][MaxDim + 2]) = <<"weight", 2, 2>>

\* the element the weight was multiplied with in an embedded element that the
\* dropout has kept
InputOf(t) ==
    LET kept == IF t[1] = "scale" THEN t[3] ELSE t
        pre == IF kept[1] = "act" THEN kept[3] ELSE kept
        product == IF pre[1] = "add" THEN pre[2] ELSE pre
    IN  IF product[1] = "mul" THEN product[3] ELSE <<"none">>

\* u is the value of continuous column c in row n of the batch, read at its
\* position cont_idx[c] and normalized by the layer of the instance
IsNormedSlice(u, n, c) ==
    LET x == <<"x", n, obj.cont_idx[c], ret.arg[n][obj.cont_idx[c] + 1]>> IN
    CASE obj.cont_norm.cls = "LayerNorm" -> u = <<"layernorm", x>>
      [] obj.cont_norm.cls = "BatchNorm1d" ->
            u[1] = "batchnorm" /\ u[2] = (IF ret.training THEN "batch" ELSE "running") /\ u[4] = x
      [] OTHER -> u = x

\* C18: in both composites the continuous branch reads the continuous columns
\* at their positions in column_idx, normalizes them with the one layer chosen
\* at construction (LayerNorm for 'layernorm', BatchNorm1d for 'batchnorm',
\* the identity otherwise) and only then embeds them: what the embedding
\* multiplies with its weight is the normalized value, and what is returned
\* without embedding is the normalized value.
C18_NormalizationBeforeEmbedding ==
    /\ ((DiffInitDone \/ SameInitDone) /\ ret.outcome = "ok" /\ ~ret.arg.continuous_cols.isNone) =>
          /\ obj.cont_idx = [c \in 1..Len(ret.arg.continuous_cols.v) |->
                                ret.arg.column_idx[ret.arg.continuous_cols.v[c]]]
          /\ obj.cont_norm.cls =
                (IF ret.arg.cont_norm_layer = "layernorm" THEN "LayerNorm"
                 ELSE IF ret.arg.cont_norm_layer = "batchnorm" THEN "BatchNorm1d"
                 ELSE "Identity")
    /\ ContForwardOk =>
          \A n \in 1..Len(ret.arg) : \A c \in 1..Len(obj.continuous_cols.v) :
              IF ~obj.embed_continuous
                  THEN IsNormedSlice(ret.value.x_cont.v[n][c], n, c)
                  ELSE \A d \in 1..obj.cont_embed.embed_dim :
                          \/ ContOutput(n, c, d) = Zero
                          \/ IsNormedSlice(InputOf(ContOutput(n, c, d)), n, c)

C18_Witness ==
    /\ ContForwardOk /\ ret.training
    /\ obj.embed_continuous
    /\ obj.cont_norm.cls = "BatchNorm1d"
    /\ obj.cont_norm.num_batches_tracked = 1
    /\ ~obj.cont_embed.act_fn.isNone
    /\ Len(ret.arg) = 2
    /\ ContOutput(2, 1, 1) # Zero
    /\ InputOf(ContOutput(2, 1, 1)) = <<"batchnorm", "batch", 0, (<<"x", 2, 4, ret.arg[2][5]>>)>>

(***************************************************************************)
(* Claims on what a call leaves of the instance.                           *)
(***************************************************************************)
\* the instance without the one buffer a training-mode forward updates, the
\* batch count of BatchNorm1d: its specs, its dimensions, its tables and
\* parameters
FixedPart(o) ==
    IF HasAttr(o, "cont_norm") /\ o.cont_norm.cls = "BatchNorm1d"
        THEN [o EXCEPT !.cont_norm.num_batches_tracked = 0]
        ELSE o

\* forward called once more on the instance o, in evaluation mode
CalledAgain(o, X) ==
    CASE o.cls = "FullEmbeddingDropout" -> FullEmbeddingDropout_forward(o, X, 2, "none")
      [] o.cls = "SharedEmbeddings" -> SharedEmbeddings_forward(o, X, "none")
      [] o.cls = "DiffSizeCatAndContEmbeddings" -> DiffSizeCatAndContEmbeddings_forward(o, X, "none")
      [] OTHER -> SameSizeCatAndContEmbeddings_forward(o, X, "none")

\* C19: output_dim, the tables and their shapes, the parameters and the column
\* specs of an instance are those of its construction after every forward
\* call and every train() / eval(); a forward call in evaluation mode changes
\* nothing of the instance, no parameter and no buffer, the table and the
\* shared vector of a SharedEmbeddings included, and the same call made again
\* returns the same output.
C19_FixedAfterConstruction ==
    [][(obj # NoObject /\ obj' # NoObject) =>
        /\ FixedPart(obj') = FixedPart(obj)
        /\ (ret'.op = "forward" /\ ret' # ret /\ ~training) =>
              /\ obj' = obj
              /\ CalledAgain(obj', ret'.arg).outcome = ret'.outcome
              /\ CalledAgain(obj', ret'.arg).error = ret'.error
              /\ CalledAgain(obj', ret'.arg).value = ret'.value
      ]_vars

C19_Witness ==
    /\ obj.cls = "DiffSizeCatAndContEmbeddings"
    /\ ~obj.cat_embed_input.isNone
    /\ HasAttr(obj, "cont_norm") /\ obj.cont_norm.cls = "BatchNorm1d"
    /\ obj.cont_norm.num_batches_tracked = MaxTracked
    /\ ret.op = "forward" /\ ~ret.training /\ ret.outcome = "ok"
    /\ obj.output_dim = obj.cat_embed.emb_out_dim + obj.cont_out_dim

(***************************************************************************)
(* Claims on the fraction of SharedEmbeddings.                             *)
(***************************************************************************)
\* C20 (as claimed): in overwrite mode the constructor of SharedEmbeddings
\* accepts only a fraction strictly inside (0,1): a fraction <= 0 or >= 1 is
\* rejected and leaves no instance, so every constructed overwrite-mode
\* instance has a shared width int(D * frac) >= 0 for a fraction in (0,1).
C20_FractionStrictlyInsideUnitInterval ==
    (SeInitDone /\ ~ret.arg.add_shared_embed) =>
        /\ (ret.arg.frac_shared_embed <= 0 \/ ret.arg.frac_shared_embed >= FracDen) =>
              (ret.outcome = "raise" /\ obj = NoObject)
        /\ ret.outcome = "ok" =>
              /\ 0 < ret.arg.frac_shared_embed /\ ret.arg.frac_shared_embed < FracDen
              /\ Len(obj.shared_embed) = IntTrunc(ret.arg.embed_dim * ret.arg.frac_shared_embed, FracDen)

(***************************************************************************)
(* Claims on TabMlp.                                                       *)
(***************************************************************************)
TabMlpInitDone == ret.op = "init" /\ "mlp_hidden_dims" \in DOMAIN ret.arg

\* C21: the layer sizes of the MLP of a TabMlp are output_dim of its composite
\* embedder followed by mlp_hidden_dims, and its own output_dim is the last of
\* them; the constructor changes neither the list of the caller nor the
\* default list, which holds [200, 100] whatever was constructed before, so an
\* instance constructed with the default has the hidden sizes 200, 100.
C21_TabMlpSizesAndDefaultKept ==
    /\ lists.default = <<200, 100>>
    /\ (TabMlpInitDone /\ ~ret.arg.mlp_hidden_dims.isNone) => lists.caller = ret.arg.mlp_hidden_dims.v
    /\ (TabMlpInitDone /\ ret.outcome = "ok") =>
          LET hidden == IF ret.arg.mlp_hidden_dims.isNone THEN <<200, 100>> ELSE ret.arg.mlp_hidden_dims.v
          IN  /\ obj.tab_mlp.d_hidden = <<obj.cat_and_cont_embed.output_dim>> \o hidden
              /\ obj.output_dim = hidden[Len(hidden)]
              /\ lists[obj.mlp_hidden_dims] = hidden

C21_Witness ==
    /\ TabMlpInitDone /\ ret.outcome = "ok"
    /\ ret.arg.mlp_hidden_dims.isNone
    /\ ret.arg.embed_args.cat_embed_input = Some(DocCatInput)
    /\ ret.arg.embed_args.continuous_cols = Some(<<"e">>)
    /\ ~ret.arg.embed_args.embed_continuous
    /\ obj.tab_mlp.d_hidden = <<33, 200, 100>>
    /\ obj.output_dim = 100
    /\ lists.default = <<200, 100>>

(***************************************************************************)
(* Claims on the column index.                                             *)
(***************************************************************************)
\* the column names the arguments of a composite refer to
Referenced(a) ==
    (IF a.cat_embed_input.isNone THEN {}
     ELSE {a.cat_embed_input.v[i][1] : i \in 1..Len(a.cat_embed_input.v)})
    \cup (IF a.continuous_cols.isNone THEN {}
          ELSE {a.continuous_cols.v[i] : i \in 1..Len(a.continuous_cols.v)})

\* C22 (as claimed): every column name the categorical spec or the continuous
\* list of a successfully constructed composite refers to, of either variant,
\* is a key of column_idx: a name that is no key fails the construction, and no
\* forward call of a composite raises KeyError.
C22_ReferencedColumnsAreKeys ==
    /\ ((DiffInitDone \/ SameInitDone) /\ ret.outcome = "ok") =>
          Referenced(ret.arg) \subseteq DOMAIN ret.arg.column_idx
    /\ (Composite /\ ret.op = "forward") => ret.error # "KeyError"

(***************************************************************************)
(* Claims on the order of the steps of SharedEmbeddings.forward.           *)
(***************************************************************************)
\* what elementwise dropout with probability p can make of the element x:
\* zero, or x / (1 - p)
DropoutOf(p, x) == {Zero, Scale(p, x)}

SeTrainingElementwise ==
    /\ SeForwardDone /\ ret.training
    /\ obj.dropout.cls = "Dropout" /\ obj.dropout.p >= 0 /\ obj.dropout.p < ProbDen
    /\ CodesInTable(obj, ret.arg)

\* C23: forward of SharedEmbeddings looks up, then drops, then combines, so
\* the shared vector is never dropped: in training mode with elementwise
\* dropout of a probability in [0,1), whatever the mask, an overwrite-mode
\* instance returns rows whose first shared_width elements are exactly the
\* shared vector and whose other elements are dropout(lookup), and an
\* additive-mode instance returns dropout(lookup) + shared vector.
C23_SharedVectorNeverDropped ==
    SeTrainingElementwise =>
        /\ ret.outcome = "ok"
        /\ Len(ret.value) = Len(ret.arg)
        /\ \A n \in 1..Len(ret.arg) :
              /\ Len(ret.value[n]) = SeWidth(obj)
              /\ \A d \in 1..SeWidth(obj) :
                    IF obj.add_shared_embed
                        THEN \E x \in DropoutOf(obj.dropout.p, obj.embed.weight[ret.arg[n]][d]) :
                                ret.value[n][d] = Add(x, obj.shared_embed[d])
                        ELSE IF d <= Len(obj.shared_embed)
                            THEN ret.value[n][d] = obj.shared_embed[d]
                            ELSE ret.value[n][d] \in DropoutOf(obj.dropout.p, obj.embed.weight[ret.arg[n]][d])

C23_Witness ==
    /\ SeTrainingElementwise /\ ~obj.add_shared_embed
    /\ obj.dropout.p > 0
    /\ ret.outcome = "ok"
    /\ SeWidth(obj) = 3 /\ Len(obj.shared_embed) = 1
    /\ Len(ret.arg) = 2 /\ ret.arg[2] # 0
    /\ ret.value[1] = <<(<<"shared", "se", 1>>), Zero, Zero>>
    /\ ret.value[2][1] = <<"shared", "se", 1>>

====
